---- MODULE Spec2Model ----
(***************************************************************************)
(* Model of kantek's moderation core.                                      *)
(*                                                                         *)
(*   Part 1  Typed denylist registry: database/postgres.py                 *)
(*           AutobahnBlacklist and the add / del_ operator commands of     *)
(*           plugins/autobahn/autobahn_mgr.py.                             *)
(*   Part 2  Enforcement handler: plugins/autobahn/automatic/grenzschutz.py*)
(*                                                                         *)
(*   Part 3  Ban registry bulk sync: BanList.upsert_multiple / get_all /    *)
(*           get_all_not_in of database/postgres.py, the import_ and       *)
(*           export commands of plugins/autobahn/banlist.py and            *)
(*           utils/helpers.py rose_csv_to_dict.                            *)
(*                                                                         *)
(*   Part 4  One whole run of the add command of autobahn_mgr.py: type     *)
(*           lookup, item loop, replied file and replied photo.            *)
(*                                                                         *)
(* Every await of the source is one atomic step of the model, so commands  *)
(* and handler runs interleave exactly at the awaits.                      *)
(***************************************************************************)
EXTENDS Integers, FiniteSets, Sequences, TLC

\* ---------------------------------------------------------------- bounds
\* Rows a run of the model inserts into the denylist tables, all categories
\* together (the id sequences themselves are unbounded).
MaxRows == 3

\* ------------------------------------------------------------ value sets
\* Two of the six AutobahnBlacklist subclasses; they differ only in `name`.
Categories == {"domain", "string"}
\* Canonical denylist values (already str, so str(item) leaves them as is).
Values == {"a", "b"}
\* Concurrently running operator commands.
Operators == {1, 2}
\* User ids events are about.
Uids == {1, 2}
\* Ban reasons.
Reasons == {"spam", "flood"}
\* Handler runs that may be in flight at once.
Runs == {1, 2}

\* A missing row / Python None.  Real ids start at 1.
None == [id |-> 0, item |-> "-", retired |-> FALSE]

VARIABLES
    table,   \* table[c]: the rows of blacklists.<c>, each [id, item, retired]
    seq,     \* seq[c]: last id handed out by the id column of blacklists.<c>
    opc,     \* opc[p]: where operator command p stands: [pc, cat, item]
    ret,     \* ret[p]: p's last registry call, the row it returned and the
             \* report bucket the command put the item in: [op, cat, item, row, bucket]
    banlist, \* banlist[u]: the reason of u's row in table banlist, or NoBan
    chatAdmins, \* the ids get_participants(filter=admins) yields for the chat
    run,     \* run[r]: handler run r: its position, locals and terminal outcome
    calls,   \* calls[r]: the collaborator calls run r has issued
    bulk,    \* the banlist import / export command: its position, locals,
             \* the calls it issued and its outcome
    addrun   \* one run of the add command: its position, arguments, locals,
             \* report buckets and the number of rows it inserted

dvars == <<table, seq, opc, ret>>
gvars == <<banlist, chatAdmins, run, calls>>
bvars == <<bulk>>
avars == <<addrun>>

\* ============================================================ Part 1 ====
\* ---- database/postgres.py, AutobahnBlacklist ---------------------------

\* WHERE item = $1: the rows the statement matches.
Matching(c, v) == {r \in table[c] : r.item = v}

\* WHERE id = $1
WithId(rows, i) == {r \in rows : r.id = i}

\* conn.fetchrow of a statement without ORDER BY: any one of the matched
\* rows, or None when there is none.
FetchRow(rows) == IF rows = {} THEN {None} ELSE rows

\* get_by_value, given the row fetchrow produced.
GetByValueOf(row) ==
    IF row = None THEN None
    ELSE IF row.retired THEN None
    ELSE [id |-> row.id, item |-> row.item, retired |-> row.retired]

\* Every result get_by_value(v) can produce in the current state.
GetByValue(c, v) == {GetByValueOf(row) : row \in FetchRow(Matching(c, v))}

\* get(index) on a table holding `rows`: the row with that id, retired or not.
GetIn(rows, i) == FetchRow(WithId(rows, i))

\* get(index) in the current state.
Get(c, i) == GetIn(table[c], i)

\* get_all(): WHERE retired = false
GetAll(c) == {r \in table[c] : ~r.retired}

\* The id the INSERT assigns: the next value of the table's id sequence.
NextId(c) == seq[c] + 1

TotalRows == Cardinality(table["domain"]) + Cardinality(table["string"])

\* Mutant of PgAdd: the id is derived from the live rows instead of the
\* sequence, so a retired row's id comes back.
PgAddFromLiveRows(c, v) == [id |-> Cardinality(GetAll(c)) + 1, item |-> v, retired |-> FALSE]

\* add(item): INSERT ... (item) VALUES ($1) RETURNING id; the row it inserts,
\* which is also the BlacklistItem(id, item, False) it returns.
PgAdd(c, v) == [id |-> NextId(c), item |-> v, retired |-> FALSE]

\* Mutant of PgRetire: physical deletion (DELETE ... WHERE item=$1).
PgRetireDeletes(c, v) == {r \in table[c] : r.item # v}

\* Mutant of PgRetire: the flag is flipped instead of set.
PgRetireToggles(c, v) ==
    {IF r.item = v THEN [r EXCEPT !.retired = ~r.retired] ELSE r : r \in table[c]}

\* retire(item): the rows of c after UPDATE ... SET retired=TRUE WHERE item=$1.
PgRetire(c, v) ==
    {IF r.item = v THEN [r EXCEPT !.retired = TRUE] ELSE r : r \in table[c]}

\* retire(item): RETURNING id yields one row per row the UPDATE touched;
\* fetchrow hands back one of them (only its id), or None.
PgRetireResult(c, v) ==
    {IF row = None THEN None ELSE [id |-> row.id, item |-> "-", retired |-> FALSE] :
        row \in FetchRow(Matching(c, v))}

\* The database wrapper around retire: no returned row raises
\* ItemDoesNotExistError.
RaisesNotFound(result) == result = None

\* ---- plugins/autobahn/autobahn_mgr.py ----------------------------------
Idle == [pc |-> "idle", cat |-> "-", item |-> "-"]

\* add, line 109: existing_one = await blacklist.get_by_value(item), and the
\* else branch of line 110 (reported under Existing Items).
AddCheck(p, c, v) ==
    /\ opc[p].pc = "idle"
    /\ \E existing_one \in GetByValue(c, v) :
          /\ ret' = [ret EXCEPT ![p] = [op |-> "get_by_value", cat |-> c, item |-> v,
                                        row |-> existing_one,
                                        bucket |-> IF existing_one = None THEN "-" ELSE "existing"]]
          /\ opc' = IF existing_one = None
                    THEN [opc EXCEPT ![p] = [pc |-> "insert", cat |-> c, item |-> v]]
                    ELSE opc
    /\ UNCHANGED <<table, seq>>
    /\ UNCHANGED <<gvars, bvars, avars>>

\* add, lines 111-112: entry = await blacklist.add(item), reported under
\* Added Items.
AddInsert(p) ==
    /\ opc[p].pc = "insert"
    /\ TotalRows < MaxRows
    /\ LET c == opc[p].cat
           entry == PgAdd(c, opc[p].item) IN
          /\ table' = [table EXCEPT ![c] = @ \cup {entry}]
          /\ seq' = [seq EXCEPT ![c] = entry.id]
          /\ ret' = [ret EXCEPT ![p] = [op |-> "add", cat |-> c, item |-> opc[p].item,
                                        row |-> entry, bucket |-> "added"]]
    /\ opc' = [opc EXCEPT ![p] = Idle]
    /\ UNCHANGED <<gvars, bvars, avars>>

\* del_, lines 203-207: await blacklist.retire(item), reported under Deleted
\* Items, or under Skipped Items on ItemDoesNotExistError.
Del(p, c, v) ==
    /\ opc[p].pc = "idle"
    /\ table' = [table EXCEPT ![c] = PgRetire(c, v)]
    /\ \E result \in PgRetireResult(c, v) :
          ret' = [ret EXCEPT ![p] = [op |-> "retire", cat |-> c, item |-> v,
                                     row |-> result,
                                     bucket |-> IF RaisesNotFound(result) THEN "skipped"
                                                ELSE "removed"]]
    /\ UNCHANGED <<seq, opc>>
    /\ UNCHANGED <<gvars, bvars, avars>>

\* No run of the add command: no arguments, empty buckets.
NoAddRun == [pc |-> "idle", type |-> "-", items |-> <<>>, reply |-> "none",
             hex_type |-> "None", blacklist |-> "None", k |-> 0, item |-> "-",
             added |-> <<>>, existing |-> <<>>, skipped |-> <<>>, created |-> 0,
             out |-> "-", err |-> "-"]

NoCall == [op |-> "-", cat |-> "-", item |-> "-", row |-> None, bucket |-> "-"]

DInit ==
    /\ table = [c \in Categories |-> {}]
    /\ seq = [c \in Categories |-> 0]
    /\ opc = [p \in Operators |-> Idle]
    /\ ret = [p \in Operators |-> NoCall]
    /\ addrun = NoAddRun

vars == <<table, seq, opc, ret, banlist, chatAdmins, run, calls, bulk, addrun>>

\* ============================================================ Part 2 ====
\* ---- database/postgres.py, BanList -------------------------------------
\* No row in banlist for the id.
NoBan == "-"

\* get_user(uid): SELECT * FROM banlist WHERE id = $1 (id is the primary
\* key); the row's reason, or NoBan for the implicit None.
GetUser(uid) == banlist[uid]

\* remove(uid): DELETE FROM banlist WHERE id = $1.
BanRemove(u) ==
    /\ banlist[u] # NoBan
    /\ banlist' = [banlist EXCEPT ![u] = NoBan]
    /\ UNCHANGED <<chatAdmins, run, calls>>
    /\ UNCHANGED <<dvars, bvars, avars>>

\* ---- plugins/autobahn/automatic/grenzschutz.py -------------------------
\* uid is None.
NoUid == 0

\* The events the two decorators deliver: a ChatAction.Event (user_id, the
\* left/kicked flags and the action message's action, "none" when there is
\* no action message) or a NewMessage.Event (message.from_id).
ActionEvents ==
    [kind : {"action"}, private : BOOLEAN, left : BOOLEAN, kicked : BOOLEAN,
     action : {"none", "add_user", "joined_by_link", "other"},
     user_id : Uids \cup {NoUid}, from_id : {NoUid}]
MessageEvents ==
    [kind : {"message"}, private : BOOLEAN, left : {FALSE}, kicked : {FALSE},
     action : {"none"}, user_id : {NoUid}, from_id : Uids \cup {NoUid}]
Events == ActionEvents \cup MessageEvents

\* chat.admin_rights: None, rights without ban_users, rights with ban_users.
AdminRights == {"none", "no_ban", "ban"}

\* Mutant of Filtered: leave and kick events are let through.
FilteredKeepsLeaves(e) ==
    \/ e.private
    \/ /\ e.kind = "action"
       /\ \/ e.action = "none"
          \/ e.action \notin {"joined_by_link", "add_user"}

\* Lines 36-47: the event is dropped before anything is fetched.
Filtered(e) ==
    \/ e.private
    \/ /\ e.kind = "action"
       /\ \/ e.left \/ e.kicked
          \/ e.action = "none"
          \/ e.action \notin {"joined_by_link", "add_user"}

\* Lines 50-53: the account may not ban in this chat.
NoAuthority(creator, rights) ==
    \/ ~creator /\ rights = "none"
    \/ rights # "none" /\ rights # "ban"

\* Lines 62-67: the subject of the event.
SubjectOf(e) == IF e.kind = "action" THEN e.user_id ELSE e.from_id

NoRun == [pc |-> "idle", out |-> "-", event |-> "-", uid |-> NoUid,
          creator |-> FALSE, rights |-> "none", grenzschutz_tag |-> "-",
          polizei_tag |-> "-", user |-> FALSE, ban_reason |-> NoBan, admins |-> {}]
NoCalls == [get_chat |-> 0, tags |-> 0, lookup |-> 0, participants |-> 0,
            ban |-> 0, delete |-> 0, respond |-> 0, said |-> NoBan]

Finish(r, outcome, fields) == [fields EXCEPT !.pc = "done", !.out = outcome]

\* Lines 36-49: the shape filter, up to the await of event.get_chat().
Receive(r, e) ==
    /\ run[r].pc = "idle"
    /\ LET got == [run[r] EXCEPT !.event = e.kind, !.uid = SubjectOf(e)] IN
       run' = [run EXCEPT ![r] = IF Filtered(e) THEN Finish(r, "ignored", [got EXCEPT !.uid = NoUid])
                                 ELSE [got EXCEPT !.pc = "get_chat"]]
    /\ UNCHANGED <<banlist, chatAdmins, calls>>
    /\ UNCHANGED <<dvars, bvars, avars>>

\* Lines 49-55: chat = await event.get_chat(), the authority check, up to
\* the await of Tags.create(event).
GetChat(r, creator, rights) ==
    /\ run[r].pc = "get_chat"
    /\ calls' = [calls EXCEPT ![r].get_chat = @ + 1]
    /\ LET got == [run[r] EXCEPT !.creator = creator, !.rights = rights] IN
       run' = [run EXCEPT ![r] = IF NoAuthority(creator, rights) THEN Finish(r, "ignored", got)
                                 ELSE [got EXCEPT !.pc = "tags"]]
    /\ UNCHANGED <<banlist, chatAdmins>>
    /\ UNCHANGED <<dvars, bvars, avars>>

\* Mutant of ReadTags: only the grenzschutz tag opts a chat out.
ReadTagsGrenzschutzOnly(r, grenzschutz_tag, polizei_tag) ==
    /\ run[r].pc = "tags"
    /\ calls' = [calls EXCEPT ![r].tags = @ + 1]
    /\ LET got == [run[r] EXCEPT !.grenzschutz_tag = grenzschutz_tag,
                                 !.polizei_tag = polizei_tag] IN
       run' = [run EXCEPT ![r] =
                  IF grenzschutz_tag = "exclude"
                  THEN [got EXCEPT !.pc = "done", !.out = "ignored"]
                  ELSE IF run[r].uid = NoUid THEN [got EXCEPT !.pc = "done", !.out = "ignored"]
                  ELSE [got EXCEPT !.pc = "get_entity"]]
    /\ UNCHANGED <<banlist, chatAdmins>>
    /\ UNCHANGED <<dvars, bvars, avars>>

\* Lines 55-71: the tags, the opt-out, the subject, up to the await of
\* client.get_entity(uid).
ReadTags(r, grenzschutz_tag, polizei_tag) ==
    /\ run[r].pc = "tags"
    /\ calls' = [calls EXCEPT ![r].tags = @ + 1]
    /\ LET got == [run[r] EXCEPT !.grenzschutz_tag = grenzschutz_tag,
                                 !.polizei_tag = polizei_tag] IN
       run' = [run EXCEPT ![r] =
                  IF grenzschutz_tag = "exclude" \/ polizei_tag = "exclude"
                  THEN Finish(r, "ignored", got)
                  ELSE IF run[r].uid = NoUid THEN Finish(r, "ignored", got)
                  ELSE [got EXCEPT !.pc = "get_entity"]]
    /\ UNCHANGED <<banlist, chatAdmins>>
    /\ UNCHANGED <<dvars, bvars, avars>>

\* Lines 70-75: user = await client.get_entity(uid); a ValueError is logged
\* and leaves `user` unbound.
GetEntity(r, resolved) ==
    /\ run[r].pc = "get_entity"
    /\ run' = [run EXCEPT ![r].user = resolved, ![r].pc = "lookup"]
    /\ UNCHANGED <<banlist, chatAdmins, calls>>
    /\ UNCHANGED <<dvars, bvars, avars>>

\* Mutant of LookupBan: a run reuses the reason another run in flight has
\* already read instead of querying the registry itself.
LookupBanShared(r) ==
    /\ run[r].pc = "lookup"
    /\ LET seen == {run[q].ban_reason : q \in Runs \ {r}} \ {NoBan}
           result == GetUser(run[r].uid) IN
       IF seen # {}
       THEN /\ run' = [run EXCEPT ![r].ban_reason = CHOOSE x \in seen : TRUE,
                                  ![r].pc = "participants"]
            /\ UNCHANGED calls
       ELSE /\ calls' = [calls EXCEPT ![r].lookup = @ + 1]
            /\ run' = [run EXCEPT ![r] =
                          IF result = NoBan
                          THEN [run[r] EXCEPT !.pc = "done", !.out = "not_banned"]
                          ELSE [run[r] EXCEPT !.ban_reason = result, !.pc = "participants"]]
    /\ UNCHANGED <<banlist, chatAdmins>>
    /\ UNCHANGED <<dvars, bvars, avars>>

\* Mutant of LookupBan: the `return` of the miss branch is lost and the run
\* goes on to the admin fetch.
LookupBanNoReturn(r) ==
    /\ run[r].pc = "lookup"
    /\ calls' = [calls EXCEPT ![r].lookup = @ + 1]
    /\ run' = [run EXCEPT ![r].ban_reason = GetUser(run[r].uid), ![r].pc = "participants"]
    /\ UNCHANGED <<banlist, chatAdmins>>
    /\ UNCHANGED <<dvars, bvars, avars>>

\* Lines 75-80: result = await db.banlist.get(uid).
LookupBan(r) ==
    /\ run[r].pc = "lookup"
    /\ calls' = [calls EXCEPT ![r].lookup = @ + 1]
    /\ LET result == GetUser(run[r].uid) IN
       run' = [run EXCEPT ![r] = IF result = NoBan THEN Finish(r, "not_banned", run[r])
                                 ELSE [run[r] EXCEPT !.ban_reason = result,
                                                     !.pc = "participants"]]
    /\ UNCHANGED <<banlist, chatAdmins>>
    /\ UNCHANGED <<dvars, bvars, avars>>

\* Mutant of CheckPrivilege: the membership test is dropped, admins are
\* banned like everyone else.
CheckPrivilegeNoTest(r) ==
    /\ run[r].pc = "participants"
    /\ calls' = [calls EXCEPT ![r].participants = @ + 1]
    /\ run' = [run EXCEPT ![r].admins = chatAdmins, ![r].pc = "ban"]
    /\ UNCHANGED <<banlist, chatAdmins>>
    /\ UNCHANGED <<dvars, bvars, avars>>

\* Lines 80-83: admins = ... await client.get_participants(...), and the
\* test uid not in admins.
CheckPrivilege(r) ==
    /\ run[r].pc = "participants"
    /\ calls' = [calls EXCEPT ![r].participants = @ + 1]
    /\ LET got == [run[r] EXCEPT !.admins = chatAdmins] IN
       run' = [run EXCEPT ![r] = IF run[r].uid \notin got.admins
                                 THEN [got EXCEPT !.pc = "ban"]
                                 ELSE Finish(r, "admin_exempt", got)]
    /\ UNCHANGED <<banlist, chatAdmins>>
    /\ UNCHANGED <<dvars, bvars, avars>>

\* Mutant of ExecuteBan: the error is logged but the `return` is lost.
ExecuteBanNoReturn(r, ok) ==
    /\ run[r].pc = "ban"
    /\ calls' = [calls EXCEPT ![r].ban = @ + 1]
    /\ run' = [run EXCEPT ![r].pc = "delete"]
    /\ UNCHANGED <<banlist, chatAdmins>>
    /\ UNCHANGED <<dvars, bvars, avars>>

\* Lines 82-87: await client.ban(chat, uid); UserIdInvalidError is logged
\* and ends the run.
ExecuteBan(r, ok) ==
    /\ run[r].pc = "ban"
    /\ calls' = [calls EXCEPT ![r].ban = @ + 1]
    /\ run' = [run EXCEPT ![r] = IF ok THEN [run[r] EXCEPT !.pc = "delete"]
                                 ELSE Finish(r, "ban_failed", run[r])]
    /\ UNCHANGED <<banlist, chatAdmins>>
    /\ UNCHANGED <<dvars, bvars, avars>>

\* Mutant of Cleanup: a failed delete sends the run back to the ban call.
CleanupRetriesBan(r, ok) ==
    /\ run[r].pc = "delete"
    /\ calls' = [calls EXCEPT ![r].delete = @ + 1]
    /\ run' = [run EXCEPT ![r] =
                  IF ~ok THEN [run[r] EXCEPT !.pc = "ban"]
                  ELSE IF run[r].grenzschutz_tag = "silent" THEN Finish(r, "banned", run[r])
                  ELSE IF ~run[r].user THEN Finish(r, "raised", run[r])
                  ELSE [run[r] EXCEPT !.pc = "respond"]]
    /\ UNCHANGED <<banlist, chatAdmins>>
    /\ UNCHANGED <<dvars, bvars, avars>>

\* Lines 87-95: await event.delete() (no handler around it: a failure leaves
\* the coroutine), then the message is built, which reads user.first_name.
Cleanup(r, ok) ==
    /\ run[r].pc = "delete"
    /\ calls' = [calls EXCEPT ![r].delete = @ + 1]
    /\ run' = [run EXCEPT ![r] =
                  IF ~ok THEN Finish(r, "raised", run[r])
                  ELSE IF run[r].grenzschutz_tag = "silent" THEN Finish(r, "banned", run[r])
                  ELSE IF ~run[r].user THEN Finish(r, "raised", run[r])
                  ELSE [run[r] EXCEPT !.pc = "respond"]]
    /\ UNCHANGED <<banlist, chatAdmins>>
    /\ UNCHANGED <<dvars, bvars, avars>>

\* Mutant of Notify: the notification also drops the subject's ban record.
NotifyDropsRecord(r) ==
    /\ run[r].pc = "respond"
    /\ calls' = [calls EXCEPT ![r].respond = @ + 1, ![r].said = run[r].ban_reason]
    /\ run' = [run EXCEPT ![r] = Finish(r, "banned", run[r])]
    /\ banlist' = [banlist EXCEPT ![run[r].uid] = NoBan]
    /\ UNCHANGED chatAdmins
    /\ UNCHANGED <<dvars, bvars, avars>>

\* Line 96: await client.respond(event, str(message), reply=False, delete=120).
Notify(r) ==
    /\ run[r].pc = "respond"
    /\ calls' = [calls EXCEPT ![r].respond = @ + 1, ![r].said = run[r].ban_reason]
    /\ run' = [run EXCEPT ![r] = Finish(r, "banned", run[r])]
    /\ UNCHANGED <<banlist, chatAdmins>>
    /\ UNCHANGED <<dvars, bvars, avars>>

\* ============================================================ Part 3 ====
\* ---- ban registry bulk sync --------------------------------------------

\* Longest CSV body (rows after the header) an import or export reply holds.
MaxBatch == 3

\* The id column of a CSV row is text.  int() reads "1" and "01" as 1,
\* "2" as 2, and raises ValueError on "x".
IdTokens == {"1", "01", "2", "x"}
Numeric(t) == t \in {"1", "01", "2"}
ToInt(t) == CASE t = "1" -> 1 [] t = "01" -> 1 [] t = "2" -> 2
\* str() of an id, as csv.writer writes it.
ToStr(i) == CASE i = 1 -> "1" [] i = 2 -> "2"

\* A CSV row is <<id, ..., reason>>; the header is the first row of a file.
Header == <<"id", "reason">>
Lines == {<<t, x>> : t \in IdTokens, x \in Reasons}
Bodies == UNION {[1..n -> Lines] : n \in 0..MaxBatch}
Files == {<<>>} \cup {<<Header>> \o b : b \in Bodies}

\* The message a command replies to: none, a document that is not a CSV
\* (never downloaded), or a CSV document.
NoReply == [ext |-> "-", data |-> <<>>]
Replies == {NoReply} \cup {[ext |-> ".txt", data |-> <<>>]}
               \cup {[ext |-> ".csv", data |-> f] : f \in Files}

\* ---- utils/helpers.py --------------------------------------------------

\* rose_csv_to_dict: next() drops the first row, every other row becomes
\* {'id': line[0], 'reason': line[-1]}; nothing is validated or merged.
RoseCsvToDict(data) ==
    IF data = <<>> THEN <<>>
    ELSE [i \in 1..(Len(data) - 1) |->
             [id |-> data[i + 1][1], reason |-> data[i + 1][Len(data[i + 1])]]]

\* ---- database/postgres.py, BanList -------------------------------------

\* SELECT * FROM banlist, as BannedUser(id, reason).
BanGetAll(bl) == {[id |-> u, reason |-> bl[u]] : u \in {w \in Uids : bl[w] # NoBan}}

\* int(u['id']) for every record, before any statement is sent.
ConvertOk(bans) == \A i \in 1..Len(bans) : Numeric(bans[i].id)
Records(bans) == [i \in 1..Len(bans) |-> [id |-> ToInt(bans[i].id), reason |-> bans[i].reason]]

\* INSERT ... SELECT ... ON CONFLICT (id) DO UPDATE is one statement, and a
\* statement may not touch a row twice: two records with one id make it fail.
MergeOk(recs) == \A i, j \in 1..Len(recs) : i # j => recs[i].id # recs[j].id

\* Mutant of Merge: a conflicting row is deleted instead of updated.
MergeDeletesConflicts(bl, recs) ==
    [u \in Uids |->
        IF \E i \in 1..Len(recs) : recs[i].id = u
        THEN IF bl[u] # NoBan THEN NoBan
             ELSE recs[CHOOSE i \in 1..Len(recs) : recs[i].id = u].reason
        ELSE bl[u]]

\* The statement's effect on banlist when it succeeds: new ids are
\* inserted, present ids get the record's reason.
Merge(bl, recs) ==
    [u \in Uids |->
        IF \E i \in 1..Len(recs) : recs[i].id = u
        THEN recs[CHOOSE i \in 1..Len(recs) : recs[i].id = u].reason
        ELSE bl[u]]

\* The exception upsert_multiple raises, "-" if none.
UpsertError(bans) ==
    IF ~ConvertOk(bans) THEN "ValueError"
    ELSE IF ~MergeOk(Records(bans)) THEN "CardinalityViolationError"
    ELSE "-"

\* Mutant of UpsertMultiple: the records are written one by one, each in
\* its own statement, up to the first record that does not convert.
UpsertMultipleRowwise(bl, bans) ==
    LET bad == {i \in 1..Len(bans) : ~Numeric(bans[i].id)}
        stop == IF bad = {} THEN Len(bans) + 1
                ELSE CHOOSE i \in bad : \A j \in bad : i <= j
        hit(u) == {i \in 1..(stop - 1) : ToInt(bans[i].id) = u}
    IN [u \in Uids |->
           IF hit(u) = {} THEN bl[u]
           ELSE bans[CHOOSE i \in hit(u) : \A j \in hit(u) : j <= i].reason]

\* upsert_multiple: the table after the call.  A failed conversion sends
\* nothing; a failed statement is rolled back with its transaction.
UpsertMultiple(bl, bans) ==
    IF UpsertError(bans) = "-" THEN Merge(bl, Records(bans)) ELSE bl

\* Mutant of GetAllNotIn: the ids are compared as text, without int().
GetAllNotInText(bl, not_in) ==
    {u \in BanGetAll(bl) : ~(\E i \in 1..Len(not_in) : ToStr(u.id) = not_in[i])}

\* get_all_not_in: WHERE NOT (id = ANY($1)), $1 being list(map(int, not_in)).
GetAllNotIn(bl, not_in) ==
    {u \in BanGetAll(bl) : ~(\E i \in 1..Len(not_in) : u.id = ToInt(not_in[i]))}

\* ---- plugins/autobahn/banlist.py ---------------------------------------

\* Ids per call of add_bans.
SWAPI_SLICE_LENGTH == 50

\* The reasons of a batch in the order they first occur (the key order of
\* the dict `bans`).
RECURSIVE ReasonOrder(_)
ReasonOrder(bans) ==
    IF bans = <<>> THEN <<>>
    ELSE LET front == ReasonOrder(SubSeq(bans, 1, Len(bans) - 1))
             last == bans[Len(bans)].reason
         IN IF \E i \in 1..Len(front) : front[i] = last THEN front
            ELSE Append(front, last)

\* bans[reason]: the ids of the records with that reason, in file order.
RECURSIVE UidsOf(_, _)
UidsOf(bans, reason) ==
    IF bans = <<>> THEN <<>>
    ELSE IF Head(bans).reason = reason
         THEN <<Head(bans).id>> \o UidsOf(Tail(bans), reason)
         ELSE UidsOf(Tail(bans), reason)

\* The while loop over uids_copy: slices of SWAPI_SLICE_LENGTH ids, each a
\* list of Ban(int(uid), reason, admin_id).
RECURSIVE Slices(_, _)
Slices(reason, uids) ==
    IF uids = <<>> THEN <<>>
    ELSE LET n == IF Len(uids) < SWAPI_SLICE_LENGTH THEN Len(uids) ELSE SWAPI_SLICE_LENGTH
         IN <<[reason |-> reason, uids |-> [i \in 1..n |-> ToInt(uids[i])]]>>
                \o Slices(reason, SubSeq(uids, n + 1, Len(uids)))

\* Every add_bans call the push loops are going to make, in order.
RECURSIVE ChunksFrom(_, _)
ChunksFrom(bans, reasons) ==
    IF reasons = <<>> THEN <<>>
    ELSE Slices(Head(reasons), UidsOf(bans, Head(reasons))) \o ChunksFrom(bans, Tail(reasons))

Chunks(bans) == ChunksFrom(bans, ReasonOrder(bans))

\* `_banlist` of export before line 113 runs, after the else branch, and
\* after the CSV branch.
Unbound == [kind |-> "unbound", ids |-> <<>>]
PyNone == [kind |-> "None", ids |-> <<>>]
IdList(ids) == [kind |-> "list", ids |-> ids]

NoBulk == [pc |-> "idle", cmd |-> "-", data |-> <<>>, rows |-> <<>>, sw |-> FALSE, with_diff |-> FALSE,
           todo |-> <<>>, pushed |-> <<>>, not_in |-> Unbound, users |-> {},
           sent |-> <<>>, out |-> "-", err |-> "-", count |-> 0]

\* A command ends: with a return value, or with the exception that left it.
BulkReturn(out, fields) == [fields EXCEPT !.pc = "done", !.out = out]
BulkRaise(err, fields) == [fields EXCEPT !.pc = "done", !.out = "raised", !.err = err]

\* import_, lines 71-80: the reply is fetched, checked, downloaded, parsed.
ImportReceive(reply, sw) ==
    /\ bulk.pc = "idle"
    /\ bulk' = IF reply = NoReply
               THEN BulkReturn("none", [bulk EXCEPT !.cmd = "import"])
               ELSE IF reply.ext # ".csv"
               THEN BulkReturn("not_csv", [bulk EXCEPT !.cmd = "import"])
               ELSE [bulk EXCEPT !.cmd = "import", !.pc = "upsert", !.sw = sw,
                                 !.data = reply.data,
                                 !.rows = RoseCsvToDict(reply.data)]
    /\ UNCHANGED <<banlist, chatAdmins, run, calls>>
    /\ UNCHANGED <<dvars, avars>>

\* import_, lines 81-87: a non-empty batch is upserted; an exception of the
\* upsert leaves import_ there.  With an authority of sufficient permission
\* the batch is then grouped by reason for the push.
ImportUpsert ==
    /\ bulk.pc = "upsert"
    /\ IF bulk.rows = <<>>
       THEN /\ bulk' = [bulk EXCEPT !.pc = "return"]
            /\ UNCHANGED banlist
       ELSE /\ banlist' = UpsertMultiple(banlist, bulk.rows)
            /\ bulk' = IF UpsertError(bulk.rows) # "-"
                       THEN BulkRaise(UpsertError(bulk.rows), bulk)
                       ELSE IF bulk.sw
                       THEN [bulk EXCEPT !.pc = "push", !.todo = Chunks(bulk.rows)]
                       ELSE [bulk EXCEPT !.pc = "return"]
    /\ UNCHANGED <<chatAdmins, run, calls>>
    /\ UNCHANGED <<dvars, avars>>

\* Mutant of ImportPush: a failed push takes the batch out of the registry
\* again.
ImportPushUndoes(ok) ==
    /\ bulk.pc = "push"
    /\ LET call == [bulk EXCEPT !.pushed = Append(@, Head(bulk.todo)),
                                !.todo = Tail(@)]
       IN bulk' = IF ~ok THEN BulkRaise("add_bans", call)
                  ELSE IF call.todo = <<>> THEN [call EXCEPT !.pc = "return"]
                  ELSE call
    /\ banlist' = IF ok THEN banlist
                  ELSE [u \in Uids |->
                           IF \E i \in 1..Len(bulk.rows) : ToInt(bulk.rows[i].id) = u
                           THEN NoBan ELSE banlist[u]]
    /\ UNCHANGED <<chatAdmins, run, calls>>
    /\ UNCHANGED <<dvars, avars>>

\* import_, lines 88-93: the next add_bans call.  It is not guarded: when
\* it raises, import_ ends with that exception.
ImportPush(ok) ==
    /\ bulk.pc = "push"
    /\ LET call == [bulk EXCEPT !.pushed = Append(@, Head(bulk.todo)),
                                !.todo = Tail(@)]
       IN bulk' = IF ~ok THEN BulkRaise("add_bans", call)
                  ELSE IF call.todo = <<>> THEN [call EXCEPT !.pc = "return"]
                  ELSE call
    /\ UNCHANGED gvars
    /\ UNCHANGED <<dvars, avars>>

\* import_, lines 95-98: 'Added {len(_banlist)} entries.'
ImportReturn ==
    /\ bulk.pc = "return"
    /\ bulk' = BulkReturn("result", [bulk EXCEPT !.count = Len(bulk.rows)])
    /\ UNCHANGED gvars
    /\ UNCHANGED <<dvars, avars>>

\* export, lines 110-121: `_banlist` is bound only by the CSV branch and by
\* the else of the outer if.
ExportReceive(with_diff, reply) ==
    /\ bulk.pc = "idle"
    /\ bulk' = [bulk EXCEPT
                   !.cmd = "export", !.pc = "query", !.with_diff = with_diff,
                   !.data = IF with_diff /\ reply.ext = ".csv" THEN reply.data ELSE <<>>,
                   !.not_in = IF with_diff /\ reply # NoReply
                              THEN IF reply.ext = ".csv"
                                   THEN LET parsed == RoseCsvToDict(reply.data)
                                        IN IdList([i \in 1..Len(parsed) |-> parsed[i].id])
                                   ELSE Unbound
                              ELSE PyNone]
    /\ UNCHANGED gvars
    /\ UNCHANGED <<dvars, avars>>

\* export, lines 123-126: the query.  map(int, ...) raises on an unbound
\* name, on None and on an id that is not a number.
ExportQuery ==
    /\ bulk.pc = "query"
    /\ bulk' = IF ~bulk.with_diff
               THEN [bulk EXCEPT !.pc = "send", !.users = BanGetAll(banlist)]
               ELSE IF bulk.not_in = Unbound THEN BulkRaise("UnboundLocalError", bulk)
               ELSE IF bulk.not_in = PyNone THEN BulkRaise("TypeError", bulk)
               ELSE IF \E i \in 1..Len(bulk.not_in.ids) : ~Numeric(bulk.not_in.ids[i])
               THEN BulkRaise("ValueError", bulk)
               ELSE [bulk EXCEPT !.pc = "send",
                                 !.users = GetAllNotIn(banlist, bulk.not_in.ids)]
    /\ UNCHANGED gvars
    /\ UNCHANGED <<dvars, avars>>

\* The orders a fetch without ORDER BY may return the rows in.
Orders(rows) ==
    {f \in [1..Cardinality(rows) -> rows] :
        \A i, j \in 1..Cardinality(rows) : i # j => f[i] # f[j]}

\* The CSV export writes for the users fetched: the header row, then
\* [user.id, user.reason] for every user.
ExportCsv(users) == <<Header>> \o [i \in 1..Len(users) |-> <<ToStr(users[i].id), users[i].reason>>]

\* export, lines 127-136: the file is written and sent.
ExportSend ==
    /\ bulk.pc = "send"
    /\ \E users \in Orders(bulk.users) :
          bulk' = BulkReturn("sent", [bulk EXCEPT !.sent = ExportCsv(users)])
    /\ UNCHANGED gvars
    /\ UNCHANGED <<dvars, avars>>

\* No bulk command in flight.
BQuiet == bulk = NoBulk

\* One import or export command, from any ban registry.
BInit ==
    /\ banlist \in [Uids -> Reasons \cup {NoBan}]
    /\ chatAdmins = {}
    /\ run = [r \in Runs |-> NoRun]
    /\ calls = [r \in Runs |-> NoCalls]
    /\ BQuiet

BStart == DInit /\ BInit

\* (Replies is large: a command's start is tried in idle states only.)
BNext ==
    \/ bulk.pc = "idle" /\ \E reply \in Replies, sw \in BOOLEAN : ImportReceive(reply, sw)
    \/ ImportUpsert
    \/ \E ok \in BOOLEAN : ImportPush(ok)
    \/ ImportReturn
    \/ bulk.pc = "idle" /\ \E with_diff \in BOOLEAN, reply \in Replies : ExportReceive(with_diff, reply)
    \/ ExportQuery
    \/ ExportSend

\* ============================================================ Part 4 ====
\* ---- plugins/autobahn/autobahn_mgr.py: one run of the add command ------

\* Most items one add command is given.
MaxItems == 2

\* Type names an operator may give: four of the eight names of
\* AUTOBAHN_TYPES, and "nope", which is none of them.
AUTOBAHN_TYPES == [string |-> "0x1", domain |-> "0x4", file |-> "0x5",
                   mhash |-> "0x6", tld |-> "0x7"]
TypeNames == DOMAIN AUTOBAHN_TYPES \cup {"nope"}
NoHex == "None"
\* AUTOBAHN_TYPES.get(item_type)
HexType(t) == IF t \in DOMAIN AUTOBAHN_TYPES THEN AUTOBAHN_TYPES[t] ELSE NoHex

\* ab_collection_map: the blacklists that exist, by hex type ('0x2' and
\* '0x7' have none), named by their table.
AbCollectionMap == [x \in {"0x1", "0x4", "0x5", "0x6"} |->
                       CASE x = "0x1" -> "string" [] x = "0x4" -> "domain"
                         [] x = "0x5" -> "file" [] x = "0x6" -> "mhash"]
AddCategories == {AbCollectionMap[x] : x \in DOMAIN AbCollectionMap}
NoBlacklist == "None"
\* db.blacklists.get(hex_type)
BlacklistOf(hex) == IF hex \in DOMAIN AbCollectionMap THEN AbCollectionMap[hex] ELSE NoBlacklist

\* A domain of constants.TELEGRAM_DOMAINS, and the hash of a replied photo.
TelegramDomain == "t.me"
PhotoHash == "ph"

\* The message the command replies to: none, one without media, a document,
\* a photo (reply_msg.file is set for a photo as well).
AddReplies == {"none", "text", "document", "photo"}
HasFile(reply) == reply \in {"document", "photo"}
HasPhoto(reply) == reply = "photo"

ItemLists == UNION {[1..n -> Values] : n \in 0..MaxItems}

\* Rows in the blacklists the add command writes.
AddRows ==
    Cardinality(table["string"]) + Cardinality(table["domain"])
        + Cardinality(table["file"]) + Cardinality(table["mhash"])

\* The command is over: its locals are gone, its outcome (the report, an
\* Error section, or an exception) is what is left.
AddEnd(out, err) == [NoAddRun EXCEPT !.pc = "done", !.out = out, !.err = err]

\* The loop goes on with the next item, or is over.
Advance(a) == IF a.k < Len(a.items) THEN [a EXCEPT !.pc = "loop"] ELSE [a EXCEPT !.pc = "file"]

\* add, lines 63-70: the arguments, the empty buckets, the blacklist.  (The
\* reply is looked at only with no items and the file or mhash type; other
\* commands are taken without one.)
AddStart(type, items, reply) ==
    /\ addrun.pc \in {"idle", "done"}
    /\ reply # "none" => (items = <<>> /\ type \in {"file", "mhash"})
    /\ addrun' = Advance([NoAddRun EXCEPT !.type = type, !.items = items, !.reply = reply,
                                          !.hex_type = HexType(type),
                                          !.blacklist = BlacklistOf(HexType(type))])
    /\ UNCHANGED dvars
    /\ UNCHANGED <<gvars, bvars>>

\* add, lines 72-110 and 113-114 for the next item: an unknown type or a
\* missing blacklist skips the body; a domain is resolved and lower-cased,
\* and skipped when it is Telegram's; then get_by_value.
AddLookup(resolved) ==
    /\ addrun.pc = "loop"
    /\ LET item == addrun.items[addrun.k + 1]
           took == [addrun EXCEPT !.k = @ + 1] IN
       IF addrun.hex_type = NoHex \/ addrun.blacklist = NoBlacklist
       THEN /\ resolved = item
            /\ addrun' = Advance(took)
       ELSE IF addrun.hex_type = "0x4" /\ resolved = TelegramDomain
       THEN addrun' = Advance([took EXCEPT !.skipped = Append(@, resolved)])
       ELSE /\ addrun.hex_type # "0x4" => resolved = item
            /\ \E existing_one \in GetByValue(addrun.blacklist, resolved) :
                  addrun' = IF existing_one = None
                            THEN [took EXCEPT !.pc = "add", !.item = resolved]
                            ELSE Advance([took EXCEPT
                                     !.existing = Append(@, <<existing_one.id, existing_one.item>>)])
    /\ UNCHANGED dvars
    /\ UNCHANGED <<gvars, bvars>>

\* add, lines 111-112 and 152-157: entry = await blacklist.add(...), put
\* under Added Items.
AddCreate ==
    /\ addrun.pc = "add"
    /\ AddRows < MaxRows
    /\ LET c == addrun.blacklist
           entry == PgAdd(c, addrun.item)
           put == [addrun EXCEPT !.added = Append(@, <<entry.id, entry.item>>),
                                 !.created = @ + 1] IN
          /\ table' = [table EXCEPT ![c] = @ \cup {entry}]
          /\ seq' = [seq EXCEPT ![c] = entry.id]
          /\ addrun' = IF addrun.hex_type = "0x6" /\ addrun.items = <<>>
                       THEN [put EXCEPT !.pc = "return"]
                       ELSE Advance(put)
    /\ UNCHANGED <<opc, ret>>
    /\ UNCHANGED <<gvars, bvars>>

\* add, lines 116-136: with no items and the file type the replied file is
\* downloaded and hashed; line 129 then reads `item`, which the loop over
\* the empty `items` never bound.
AddFile ==
    /\ addrun.pc = "file"
    /\ addrun' = IF addrun.items = <<>> /\ addrun.hex_type = "0x5"
                 THEN IF addrun.reply = "none" \/ ~HasFile(addrun.reply)
                      THEN AddEnd("error", "-")
                      ELSE AddEnd("raised", "UnboundLocalError")
                 ELSE [addrun EXCEPT !.pc = "mhash"]
    /\ UNCHANGED dvars
    /\ UNCHANGED <<gvars, bvars>>

\* add, lines 137-151 and 158-159: with no items and the mhash type the
\* replied photo is hashed and looked up.
AddMhash ==
    /\ addrun.pc = "mhash"
    /\ IF addrun.items = <<>> /\ addrun.hex_type = "0x6"
       THEN IF addrun.reply = "none" \/ ~HasPhoto(addrun.reply)
            THEN addrun' = AddEnd("error", "-")
            ELSE \E existing_one \in GetByValue(addrun.blacklist, PhotoHash) :
                    addrun' = IF existing_one = None
                              THEN [addrun EXCEPT !.pc = "add", !.item = PhotoHash]
                              ELSE [addrun EXCEPT !.pc = "return",
                                       !.existing = Append(@, <<existing_one.id, existing_one.item>>)]
       ELSE addrun' = [addrun EXCEPT !.pc = "return"]
    /\ UNCHANGED dvars
    /\ UNCHANGED <<gvars, bvars>>

\* add, lines 160-171: the report with its three sections.
AddReturn ==
    /\ addrun.pc = "return"
    /\ addrun' = AddEnd("report", "-")
    /\ UNCHANGED dvars
    /\ UNCHANGED <<gvars, bvars>>

\* The handler at rest: nothing banned, no admins, no run in flight.
GQuiet ==
    /\ banlist = [u \in Uids |-> NoBan]
    /\ chatAdmins = {}
    /\ run = [r \in Runs |-> NoRun]
    /\ calls = [r \in Runs |-> NoCalls]
    /\ BQuiet

\* The ban registry and the chat's admin set as events may find them.
GInit ==
    /\ banlist \in [Uids -> Reasons \cup {NoBan}]
    /\ chatAdmins \in SUBSET Uids
    /\ run = [r \in Runs |-> NoRun]
    /\ calls = [r \in Runs |-> NoCalls]
    /\ BQuiet

Init == DInit /\ GQuiet

\* Operator commands interleaving at their awaits.
DNext ==
    \/ \E p \in Operators, c \in Categories, v \in Values : AddCheck(p, c, v)
    \/ \E p \in Operators : AddInsert(p)
    \/ \E p \in Operators, c \in Categories, v \in Values : Del(p, c, v)

DSpec == Init /\ [][DNext]_vars

\* Operator commands run one after the other: a command starts and
\* continues only while every other operator is idle.
Alone(p) == \A q \in Operators \ {p} : opc[q].pc = "idle"

SerialNext ==
    \/ \E p \in Operators, c \in Categories, v \in Values : Alone(p) /\ AddCheck(p, c, v)
    \/ \E p \in Operators : Alone(p) /\ AddInsert(p)
    \/ \E p \in Operators, c \in Categories, v \in Values : Alone(p) /\ Del(p, c, v)

SerialSpec == Init /\ [][SerialNext]_vars

\* One event in the handler, interleaved at its awaits with bans being
\* lifted.  Runs write nothing but their own run[r] and calls[r].
GNext ==
    \/ \E e \in Events : Receive(1, e)
    \/ \E creator \in BOOLEAN, rights \in AdminRights : GetChat(1, creator, rights)
    \/ \E g \in {"-", "silent", "exclude"}, z \in {"-", "exclude"} : ReadTags(1, g, z)
    \/ \E resolved \in BOOLEAN : GetEntity(1, resolved)
    \/ LookupBan(1)
    \/ CheckPrivilege(1)
    \/ \E ok \in BOOLEAN : ExecuteBan(1, ok)
    \/ \E ok \in BOOLEAN : Cleanup(1, ok)
    \/ Notify(1)
    \/ \E u \in Uids : BanRemove(u)

\* The denylist registry at rest under any ban registry and admin set.
GStart == DInit /\ GInit

GSpec == GStart /\ [][GNext]_vars

\* The steps of run r after its event was received: each is the return of
\* the call the run awaits.
HandlerStep(r) ==
    \/ \E creator \in BOOLEAN, rights \in AdminRights : GetChat(r, creator, rights)
    \/ \E g \in {"-", "silent", "exclude"}, z \in {"-", "exclude"} : ReadTags(r, g, z)
    \/ \E resolved \in BOOLEAN : GetEntity(r, resolved)
    \/ LookupBan(r)
    \/ CheckPrivilege(r)
    \/ \E ok \in BOOLEAN : ExecuteBan(r, ok)
    \/ \E ok \in BOOLEAN : Cleanup(r, ok)
    \/ Notify(r)

\* GSpec with every awaited call returning (with a result or an error) and
\* the event loop resuming the coroutine.
GFairSpec == GStart /\ [][GNext]_vars /\ WF_vars(HandlerStep(1))

BSpec == BStart /\ [][BNext]_vars

\* Add commands one after the other on the four blacklists they reach.
AStart ==
    /\ table = [c \in AddCategories |-> {}]
    /\ seq = [c \in AddCategories |-> 0]
    /\ opc = [p \in Operators |-> Idle]
    /\ ret = [p \in Operators |-> NoCall]
    /\ addrun = NoAddRun
    /\ GQuiet

ANext ==
    \/ \E type \in TypeNames, items \in ItemLists, reply \in AddReplies : AddStart(type, items, reply)
    \/ \E resolved \in Values \cup {TelegramDomain} : AddLookup(resolved)
    \/ AddCreate
    \/ AddFile
    \/ AddMhash
    \/ AddReturn

ASpec == AStart /\ [][ANext]_vars

\* Two events about the same subject in the same chat (a join followed at
\* once by a message), their runs interleaving at every await while the
\* subject's ban may be lifted.
PairSubject == 1

PairEvents == {e \in Events : ~Filtered(e) /\ SubjectOf(e) = PairSubject}

PairStart ==
    /\ DInit
    /\ banlist \in {b \in [Uids -> Reasons \cup {NoBan}] :
                       \A u \in Uids \ {PairSubject} : b[u] = NoBan}
    /\ chatAdmins \in SUBSET {PairSubject}
    /\ run = [r \in Runs |-> NoRun]
    /\ calls = [r \in Runs |-> NoCalls]
    /\ BQuiet

PairNext ==
    \/ \E r \in Runs, e \in PairEvents : Receive(r, e)
    \/ \E r \in Runs, creator \in BOOLEAN, rights \in AdminRights : GetChat(r, creator, rights)
    \/ \E r \in Runs, g \in {"-", "silent", "exclude"}, z \in {"-", "exclude"} : ReadTags(r, g, z)
    \/ \E r \in Runs, resolved \in BOOLEAN : GetEntity(r, resolved)
    \/ \E r \in Runs : LookupBan(r)
    \/ \E r \in Runs : CheckPrivilege(r)
    \/ \E r \in Runs, ok \in BOOLEAN : ExecuteBan(r, ok)
    \/ \E r \in Runs, ok \in BOOLEAN : Cleanup(r, ok)
    \/ \E r \in Runs : Notify(r)
    \/ BanRemove(PairSubject)

PairSpec == PairStart /\ [][PairNext]_vars

\* ================================================= Denylist properties ====
Active(c, v) == {r \in table[c] : r.item = v /\ ~r.retired}

\* Operator p takes its AddInsert step for value v of category c.
Adds(p, c, v) == AddInsert(p) /\ opc[p].cat = c /\ opc[p].item = v

\* C1 (as claimed): in every state reached by adds and retires,
\* get_by_value(v) returns an entry exactly when an active entry with value v
\* exists, and then returns an active one; in particular it is not absent
\* after add(v), retire(v), add(v).
C1_LookupReturnsActive ==
    \A c \in Categories, v \in Values :
        GetByValue(c, v) = IF Active(c, v) = {} THEN {None} ELSE Active(c, v)

\* C2 (as claimed): when add commands (check, then add if absent) and
\* retires run one after the other, a category never holds two non-retired
\* entries with the same value.
C2_OneActivePerValue ==
    \A c \in Categories, v \in Values : Cardinality(Active(c, v)) <= 1

\* C3: a successful retire(v) returning index i leaves get_by_value(v)
\* absent and get(i) a retired record, and removes no row; get_by_value(v)
\* stays absent over every step that does not add v again, and get(i) of a
\* retired record keeps returning that same record.
C3_RetireIsLogical ==
    [][ /\ \A p \in Operators, c \in Categories, v \in Values :
              (Del(p, c, v) /\ ~RaisesNotFound(ret'[p].row)) =>
                  /\ GetByValue(c, v)' = {None}
                  /\ \A r \in GetIn(table'[c], ret'[p].row.id) : r # None /\ r.retired /\ r.item = v
                  /\ Cardinality(table'[c]) = Cardinality(table[c])
        /\ \A c \in Categories, v \in Values :
              (GetByValue(c, v) = {None} /\ ~(\E p \in Operators : Adds(p, c, v))) =>
                  GetByValue(c, v)' = {None}
        /\ \A c \in Categories, i \in 1..MaxRows + 1 :
              (\E r \in Get(c, i) : r.retired) => Get(c, i)' = Get(c, i)
      ]_vars

\* C3 witness: a retire has just succeeded on a value that was added, the
\* lookup by value is absent and the lookup by the returned index yields the
\* retired record.
C3_Witness ==
    \E p \in Operators :
        /\ ret[p].op = "retire" /\ ret[p].bucket = "removed"
        /\ GetByValue(ret[p].cat, ret[p].item) = {None}
        /\ \E r \in Get(ret[p].cat, ret[p].row.id) : r.retired /\ r.item = ret[p].item

\* C4 (as claimed): retire(v) with no active entry of value v fails with
\* NotFound, del reports the item under skipped, and the rows are unchanged.
C4_RetireOfInactiveFails ==
    [][ \A p \in Operators, c \in Categories, v \in Values :
            (Del(p, c, v) /\ Active(c, v) = {}) =>
                /\ RaisesNotFound(ret'[p].row)
                /\ ret'[p].bucket = "skipped"
                /\ table' = table
      ]_vars

\* C5 (as claimed): a retire(v) that succeeds while an active entry of value
\* v exists returns the index of an entry that was active just before the
\* call, and changes nothing in the category but that entry's retired flag.
C5_RetireReturnsActiveIndex ==
    [][ \A p \in Operators, c \in Categories, v \in Values :
            (Del(p, c, v) /\ Active(c, v) # {} /\ ~RaisesNotFound(ret'[p].row)) =>
                /\ \E r \in Active(c, v) : r.id = ret'[p].row.id
                /\ \A r \in table[c] :
                      IF r.id = ret'[p].row.id
                      THEN [r EXCEPT !.retired = TRUE] \in table'[c]
                      ELSE r \in table'[c]
                /\ Cardinality(table'[c]) = Cardinality(table[c])
      ]_vars

C7_EntriesOnlyRetire ==
    [][ \A c \in Categories : \A r \in table[c] :
            \E r2 \in table'[c] :
                /\ r2.id = r.id
                /\ r2.item = r.item
                /\ (r.retired => r2.retired)
      ]_vars

\* C7 witness: a value was retired and then added again; the retired entry
\* is still there next to the new one, and a later retire hit it again.
C7_Witness ==
    \E c \in Categories, v \in Values :
        /\ \E r1, r2 \in table[c] :
              r1.item = v /\ r2.item = v /\ r1.retired /\ r2.retired /\ r1.id < r2.id
        /\ \E p \in Operators : ret[p].op = "retire" /\ ret[p].cat = c /\ ret[p].item = v

\* ============================================== Enforcement properties ====
\* The platform actions of a run: ban, delete, respond.
NoAction(c) == c.ban = 0 /\ c.delete = 0 /\ c.respond = 0

\* A run that has returned stays as it is and issues no further call.
Returned(r) == run[r].pc = "done" => (run'[r] = run[r] /\ calls'[r] = calls[r])

\* CheckAuthority as the spec states it: creator, or rights with ban_users.
HasAuthority(creator, rights) == creator \/ rights = "ban"

\* C8: a run whose lookup finds no row for the subject returns at that step
\* having issued no ban, no delete and no notification, and a returned run
\* never issues one.
C8_NotBannedNoAction ==
    [][ \A r \in Runs :
            /\ (LookupBan(r) /\ GetUser(run[r].uid) = NoBan) =>
                  (run'[r].pc = "done" /\ NoAction(calls'[r]))
            /\ Returned(r)
      ]_vars

\* C8 witness: a run for a subject without a ban row went through the
\* lookup and ended not-banned.
C8_Witness ==
    \E r \in Runs :
        /\ run[r].out = "not_banned" /\ calls[r].lookup = 1
        /\ run[r].uid # NoUid /\ GetUser(run[r].uid) = NoBan

\* C9 (as claimed): a run for a non-private add/join/message event that has
\* returned, in a chat that is not opted out and where the account is
\* creator or may ban, with the subject in the ban registry and not an admin
\* of the chat, has called ban exactly once and delete after it.
C9_BannedSubjectIsBanned ==
    \A r \in Runs :
        ( /\ run[r].pc = "done"
          /\ calls[r].get_chat = 1
          /\ HasAuthority(run[r].creator, run[r].rights)
          /\ run[r].grenzschutz_tag # "exclude" /\ run[r].polizei_tag # "exclude"
          /\ run[r].uid # NoUid
          /\ GetUser(run[r].uid) # NoBan
          /\ run[r].uid \notin chatAdmins )
        => (calls[r].ban = 1 /\ calls[r].delete = 1)

\* C10: a run whose admin fetch contains its (banned) subject returns at
\* that step having issued no ban, no delete and no notification, and a
\* returned run never issues one.
C10_AdminExempt ==
    [][ \A r \in Runs :
            /\ (CheckPrivilege(r) /\ run[r].uid \in chatAdmins) =>
                  (run'[r].pc = "done" /\ run'[r].out = "admin_exempt" /\ NoAction(calls'[r]))
            /\ Returned(r)
      ]_vars

\* C10 witness: a run found its subject in the ban registry and in the
\* admin set it fetched, and ended admin-exempt.
C10_Witness ==
    \E r \in Runs :
        /\ run[r].out = "admin_exempt" /\ calls[r].participants = 1
        /\ run[r].ban_reason # NoBan /\ run[r].uid \in run[r].admins

\* C11 (as claimed): the authority check lets a run through exactly when
\* the account is the chat's creator or has admin rights with ban_users; a
\* creator is never stopped there.
C11_AuthorityExact ==
    [][ \A r \in Runs, creator \in BOOLEAN, rights \in AdminRights :
            GetChat(r, creator, rights) =>
                (run'[r].pc = "done" <=> ~HasAuthority(creator, rights))
      ]_vars

\* C12: a run that reads 'exclude' in the grenzschutz tag or in the polizei
\* tag returns at that step as ignored, with no ban registry lookup, ban,
\* delete or notification issued, and a returned run never issues one.
C12_OptOutIgnored ==
    [][ \A r \in Runs, g \in {"-", "silent", "exclude"}, z \in {"-", "exclude"} :
            /\ (ReadTags(r, g, z) /\ (g = "exclude" \/ z = "exclude")) =>
                  /\ run'[r].pc = "done" /\ run'[r].out = "ignored"
                  /\ calls'[r].lookup = 0 /\ NoAction(calls'[r])
            /\ Returned(r)
      ]_vars

\* C12 witness: a run for a banned subject ended ignored on the polizei
\* tag alone.
C12_Witness ==
    \E r \in Runs :
        /\ run[r].out = "ignored" /\ calls[r].tags = 1
        /\ run[r].polizei_tag = "exclude" /\ run[r].grenzschutz_tag # "exclude"
        /\ run[r].uid # NoUid /\ GetUser(run[r].uid) # NoBan

\* C13: a ban call that fails with the invalid-id error ends the run at
\* that step: one ban call in all, no delete, no notification, and the
\* returned run issues no further call (no retry).
C13_BanFailureHalts ==
    [][ \A r \in Runs :
            /\ ExecuteBan(r, FALSE) =>
                  /\ run'[r].pc = "done" /\ run'[r].out = "ban_failed"
                  /\ calls'[r].ban = 1 /\ calls'[r].delete = 0 /\ calls'[r].respond = 0
            /\ Returned(r)
      ]_vars

\* C13 witness: a run ended ban-failed after its single ban call.
C13_Witness ==
    \E r \in Runs :
        run[r].out = "ban_failed" /\ calls[r].ban = 1 /\ calls[r].delete = 0

\* C14 (as claimed): when the delete of the triggering message fails after
\* a successful ban, the run (subject resolved, silent tag not set) still
\* goes on to send the notification.
C14_DeleteFailureNotFatal ==
    [][ \A r \in Runs :
            (Cleanup(r, FALSE) /\ run[r].user /\ run[r].grenzschutz_tag # "silent") =>
                run'[r].pc = "respond"
      ]_vars

\* C15: with two runs for the same subject in the same chat interleaving in
\* every way, a run is at or past its ban call only after one lookup and
\* one admin fetch of its own, no run calls ban more than once, and a run
\* whose lookup finds the subject's row removed returns there without a ban.
C15_RunsAreIndependent ==
    [][ \A r \in Runs :
            /\ calls'[r].ban <= 1
            /\ (run'[r].pc = "ban" \/ calls'[r].ban = 1) =>
                  (calls'[r].lookup = 1 /\ calls'[r].participants = 1)
            /\ (LookupBan(r) /\ GetUser(run[r].uid) = NoBan) =>
                  (run'[r].pc = "done" /\ run'[r].out = "not_banned" /\ calls'[r].ban = 0)
            /\ Returned(r)
      ]_vars

\* C15 witness: of two runs for the same subject one has banned it, and the
\* other, looking the subject up after the ban row was removed, ended
\* not-banned.
C15_Witness ==
    \E r, q \in Runs :
        /\ r # q /\ run[r].uid = run[q].uid /\ run[r].uid # NoUid
        /\ calls[r].ban = 1 /\ run[r].out = "banned"
        /\ run[q].out = "not_banned" /\ calls[q].lookup = 1 /\ calls[q].ban = 0

\* ---- Bulk sync properties ----------------------------------------------

\* The batch records that carry user u's id.
RowsOf(bans, u) == {i \in 1..Len(bans) : Numeric(bans[i].id) /\ ToInt(bans[i].id) = u}

\* C16: for every registry state and every batch whose ids are all numeric,
\* upserting the batch again after it was upserted changes nothing; and when
\* the upsert succeeded every id of the batch has exactly one row, which
\* holds the batch's reason for it.
C16_UpsertIdempotent ==
    [][ (ImportUpsert /\ bulk.rows # <<>> /\ ConvertOk(bulk.rows)) =>
            /\ UpsertMultiple(banlist', bulk.rows) = banlist'
            /\ bulk'.out # "raised" =>
                  \A i \in 1..Len(bulk.rows) :
                      {u \in BanGetAll(banlist') : u.id = ToInt(bulk.rows[i].id)}
                          = {[id |-> ToInt(bulk.rows[i].id), reason |-> bulk.rows[i].reason]}
      ]_vars

\* C16 witness: an import has upserted a two-record batch, one id written
\* "01", and the registry holds both records.
C16_Witness ==
    /\ bulk.cmd = "import" /\ bulk.out = "result" /\ Len(bulk.rows) = 2
    /\ \E i \in 1..2 : bulk.rows[i].id = "01"
    /\ \A i \in 1..2 : banlist[ToInt(bulk.rows[i].id)] = bulk.rows[i].reason

\* C17: an upsert of a batch that holds a non-numeric id, or whose merge
\* fails, raises and leaves the ban registry exactly as it was.
C17_UpsertAllOrNothing ==
    [][ (ImportUpsert /\ bulk.rows # <<>> /\ UpsertError(bulk.rows) # "-") =>
            (banlist' = banlist /\ bulk'.out = "raised")
      ]_vars

\* C17 witness: an upsert failed on its second record after a first record
\* that would have changed the registry.
C17_Witness ==
    /\ bulk.cmd = "import" /\ bulk.out = "raised" /\ bulk.err = "ValueError"
    /\ Len(bulk.rows) >= 2
    /\ Numeric(bulk.rows[1].id) /\ ~Numeric(bulk.rows[2].id)
    /\ banlist[ToInt(bulk.rows[1].id)] # bulk.rows[1].reason

\* C18: for every registry state and every list S of ids, the rows
\* get_all_not_in(S) returns and the registry rows whose id is in S are
\* disjoint and together are the rows of get_all().
C18_NotInPartitions ==
    [][ (ExportQuery /\ bulk.with_diff /\ bulk.not_in.kind = "list"
                     /\ \A i \in 1..Len(bulk.not_in.ids) : Numeric(bulk.not_in.ids[i])) =>
            LET S == {ToInt(bulk.not_in.ids[i]) : i \in 1..Len(bulk.not_in.ids)}
                inS == {u \in BanGetAll(banlist) : u.id \in S}
            IN /\ bulk'.users \cap inS = {}
               /\ bulk'.users \cup inS = BanGetAll(banlist)
      ]_vars

\* C18 witness: a diff export whose id list holds "01" has returned some
\* but not all rows of the registry.
C18_Witness ==
    /\ bulk.cmd = "export" /\ bulk.with_diff /\ bulk.pc \in {"send", "done"}
    /\ bulk.out # "raised"
    /\ \E i \in 1..Len(bulk.not_in.ids) : bulk.not_in.ids[i] = "01"
    /\ bulk.users # {} /\ bulk.users # BanGetAll(banlist)

\* C19: an import whose CSV carries one id on several rows succeeds: each
\* id ends with the reason of its last row, and the result counts the rows.
C19_DuplicateIdsLastWriteWins ==
    [][ /\ (ImportUpsert /\ ConvertOk(bulk.rows) /\ ~MergeOk(Records(bulk.rows))) =>
              /\ bulk'.out # "raised"
              /\ \A u \in Uids : RowsOf(bulk.rows, u) # {} =>
                    banlist'[u] = bulk.rows[CHOOSE i \in RowsOf(bulk.rows, u) :
                                               \A j \in RowsOf(bulk.rows, u) : j <= i].reason
        /\ ImportReturn => bulk'.count = Len(bulk.rows)
      ]_vars

\* C20: an import whose CSV carries a row with a non-numeric id is not
\* aborted by it: every row with a numeric id is persisted.
C20_MalformedRowSkipped ==
    [][ (ImportUpsert /\ bulk.rows # <<>> /\ ~ConvertOk(bulk.rows)) =>
            /\ bulk'.out # "raised"
            /\ \A u \in Uids : RowsOf(bulk.rows, u) # {} =>
                  banlist'[u] \in {bulk.rows[i].reason : i \in RowsOf(bulk.rows, u)}
      ]_vars

\* C21: for every registry state, an export with a diff set of ids emits
\* the header row and then exactly one row per registry user whose id is
\* not in the set; an export that was given no diff set emits the header
\* row and then exactly one row per registry user.
C21_ExportEmitsRows ==
    [][ /\ (ExportQuery /\ (bulk.not_in = PyNone \/ bulk.not_in.kind = "list")
                        /\ \A i \in 1..Len(bulk.not_in.ids) : Numeric(bulk.not_in.ids[i])) =>
              LET S == {ToInt(bulk.not_in.ids[i]) : i \in 1..Len(bulk.not_in.ids)}
              IN /\ bulk'.pc = "send"
                 /\ bulk'.users = {u \in BanGetAll(banlist) : u.id \notin S}
        /\ ExportSend =>
              /\ Head(bulk'.sent) = <<"id", "reason">>
              /\ Len(bulk'.sent) = 1 + Cardinality(bulk.users)
              /\ \A u \in bulk.users :
                    Cardinality({i \in 2..Len(bulk'.sent) :
                                    bulk'.sent[i] = <<ToStr(u.id), u.reason>>}) = 1
      ]_vars

\* ---- Add command properties --------------------------------------------

\* C22: an add of a value with no active entry goes on to create an entry
\* and reports it under 'added' with an index no entry of the category had;
\* the next add of that value, with no retire in between (the added entry is
\* still active), reports it under 'existing' with that same index and
\* leaves the table as it is.
C22_SecondAddFindsFirst ==
    [][ \A p \in Operators, c \in Categories, v \in Values :
            /\ (AddCheck(p, c, v) /\ Active(c, v) = {}) => opc'[p].pc = "insert"
            /\ Adds(p, c, v) =>
                  /\ ret'[p].bucket = "added"
                  /\ \A r \in table[c] : r.id # ret'[p].row.id
            /\ \A q \in Operators :
                  (/\ AddCheck(p, c, v)
                   /\ ret[q].op = "add" /\ ret[q].cat = c /\ ret[q].item = v
                   /\ ret[q].row \in Active(c, v)) =>
                      /\ ret'[p].bucket = "existing"
                      /\ ret'[p].row.id = ret[q].row.id
                      /\ table' = table
      ]_vars

\* What a run of the add command was given to add: its items, or with no
\* items the replied file (file type) or the replied photo (mhash type).
Supplied(a) ==
    IF a.items # <<>> THEN Len(a.items)
    ELSE IF \/ a.type = "file" /\ HasFile(a.reply)
            \/ a.type = "mhash" /\ HasPhoto(a.reply) THEN 1
    ELSE 0

\* C23: every run of the add command ends with each thing it was given
\* reported in exactly one of added, existing, skipped, and with as many
\* entries under added as rows the run inserted.
C23_EveryItemInOneBucket ==
    [][ (addrun.pc \notin {"idle", "done"} /\ addrun'.pc = "done") =>
            /\ Supplied(addrun) > 0 => addrun'.out = "report"
            /\ Len(addrun.added) + Len(addrun.existing) + Len(addrun.skipped) = Supplied(addrun)
            /\ Len(addrun.added) = addrun.created
      ]_vars

\* C24: no run of an operator command ends with an uncaught exception: add
\* (the file type with a replied file included), import and export (the
\* diff option without a CSV reply included) all end with a report or an
\* Error section.
C24_NoUncaughtException ==
    /\ addrun.out # "raised"
    /\ bulk.out # "raised"

\* ---- Push properties ---------------------------------------------------

\* The places (call, position) at which add_bans calls carried id u with
\* the given reason.
PushesOf(pushed, u, reason) ==
    {jk \in (1..Len(pushed)) \X (1..MaxBatch) :
        /\ pushed[jk[1]].reason = reason
        /\ jk[2] <= Len(pushed[jk[1]].uids)
        /\ pushed[jk[1]].uids[jk[2]] = u}

\* C25: an import that has upserted its batch and ended has, with an
\* authority of Admin or Root permission, pushed every row of the batch
\* exactly once, in calls of at most 50 ids; with no such authority it has
\* pushed nothing.  (A call carries one reason by construction of a chunk.)
C25_EveryRowPushedOnce ==
    (bulk.cmd = "import" /\ bulk.pc = "done" /\ bulk.rows # <<>>
                         /\ UpsertError(bulk.rows) = "-") =>
        IF bulk.sw
        THEN /\ \A i \in 1..Len(bulk.rows) :
                   Cardinality(PushesOf(bulk.pushed, ToInt(bulk.rows[i].id),
                                        bulk.rows[i].reason)) = 1
             /\ \A j \in 1..Len(bulk.pushed) : Len(bulk.pushed[j].uids) <= SWAPI_SLICE_LENGTH
        ELSE bulk.pushed = <<>>

\* C26: a push that fails does not end the import: the chunks still to be
\* pushed are pushed and the import result is returned.
C26_PushFailureIsolated ==
    [][ ImportPush(FALSE) =>
            /\ bulk'.out # "raised"
            /\ bulk'.pc = IF bulk'.todo = <<>> THEN "return" ELSE "push"
      ]_vars

\* C27: at every push the batch is already in the ban registry, and the
\* push, failed or not, leaves the registry as it is.
C27_UpsertSurvivesPush ==
    [][ \A ok \in BOOLEAN :
            ImportPush(ok) =>
                /\ \A i \in 1..Len(bulk.rows) :
                      banlist[ToInt(bulk.rows[i].id)] = bulk.rows[i].reason
                /\ banlist' = banlist
      ]_vars

\* C27 witness: an import of two rows ended with a failed push and both
\* rows are in the registry.
C27_Witness ==
    /\ bulk.cmd = "import" /\ bulk.out = "raised" /\ bulk.err = "add_bans"
    /\ Len(bulk.rows) = 2
    /\ \A i \in 1..2 : banlist[ToInt(bulk.rows[i].id)] = bulk.rows[i].reason

\* ---- Handler run properties --------------------------------------------

\* The place of a step in the handler's text.
Rank(pc) ==
    CASE pc = "idle" -> 0 [] pc = "get_chat" -> 1 [] pc = "tags" -> 2
      [] pc = "get_entity" -> 3 [] pc = "lookup" -> 4 [] pc = "participants" -> 5
      [] pc = "ban" -> 6 [] pc = "delete" -> 7 [] pc = "respond" -> 8 [] pc = "done" -> 9

\* C28: every step of a run moves it forward in the handler's text; the
\* lookup, the admin fetch, the ban, the deletion and the notification are
\* each called at most once, each only after the one before it; and a run
\* that has received its event ends.
C28_ForwardPassTerminates ==
    /\ [][ \A r \in Runs :
               /\ (run'[r] # run[r] \/ calls'[r] # calls[r]) =>
                     Rank(run'[r].pc) > Rank(run[r].pc)
               /\ calls'[r].lookup <= 1 /\ calls'[r].participants <= 1
               /\ calls'[r].ban <= 1 /\ calls'[r].delete <= 1 /\ calls'[r].respond <= 1
               /\ calls'[r].participants > calls[r].participants => calls[r].lookup = 1
               /\ calls'[r].ban > calls[r].ban => calls[r].participants = 1
               /\ calls'[r].delete > calls[r].delete => calls[r].ban = 1
               /\ calls'[r].respond > calls[r].respond => calls[r].delete = 1
         ]_vars
    /\ \A r \in Runs : (run[r].pc # "idle") ~> (run[r].pc = "done")

\* C28 witness: a run went through every step, from lookup to notification.
C28_Witness ==
    \E r \in Runs :
        /\ run[r].pc = "done" /\ run[r].out = "banned"
        /\ calls[r].lookup = 1 /\ calls[r].participants = 1 /\ calls[r].ban = 1
        /\ calls[r].delete = 1 /\ calls[r].respond = 1

\* C29: an event of a private conversation, a leave or kick event, and a
\* membership event whose action is neither add-user nor joined-by-link end
\* the run as ignored on receipt, and an ignored run that fetched no chat
\* has read no tags, looked nothing up, banned, deleted and sent nothing.
C29_ShapeFilterBeforeAnyCall ==
    [][ /\ \A e \in Events :
              ( /\ Receive(1, e)
                /\ \/ e.private
                   \/ e.kind = "action" /\ (e.left \/ e.kicked)
                   \/ e.kind = "action" /\ e.action # "add_user" /\ e.action # "joined_by_link" )
              => run'[1].pc = "done" /\ run'[1].out = "ignored" /\ calls'[1] = NoCalls
        /\ \A r \in Runs :
              (run[r].out = "ignored" /\ calls[r].get_chat = 0) =>
                  calls'[r] = NoCalls /\ run'[r].pc \in {"done", "idle"}
      ]_vars

\* C29 witness: a membership event was dropped on receipt, nothing called.
C29_Witness ==
    /\ run[1].pc = "done" /\ run[1].out = "ignored" /\ run[1].event = "action"
    /\ calls[1] = NoCalls

\* C30: a run whose ban call succeeded (it went on to the deletion) ends
\* with one notification carrying the looked-up reason when the silent tag
\* is absent and with none when it is set, whether or not get_entity
\* resolved the subject.
C30_NotificationAfterBan ==
    \A r \in Runs :
        (run[r].pc = "done" /\ calls[r].delete >= 1) =>
            IF run[r].grenzschutz_tag = "silent"
            THEN calls[r].respond = 0
            ELSE calls[r].respond = 1 /\ calls[r].said = run[r].ban_reason

\* C31: no step of a handler run, whatever the run's outcome, changes the
\* ban registry or a denylist category (rows or id sequence): the run only
\* reads the ban registry and calls the platform.
C31_HandlerLeavesRegistries ==
    [][ \A r \in Runs :
            (run'[r] # run[r] \/ calls'[r] # calls[r]) =>
                banlist' = banlist /\ table' = table /\ seq' = seq
      ]_vars

\* C31 witness: a run banned its subject and notified the chat, and the
\* subject's record is still the one the run read.
C31_Witness ==
    \E r \in Runs :
        /\ run[r].pc = "done" /\ run[r].out = "banned" /\ calls[r].respond = 1
        /\ run[r].ban_reason # NoBan /\ banlist[run[r].uid] = run[r].ban_reason

====
